---- MODULE Spec2Model ----
(***************************************************************************)
(* RawMemory<T> and Vector<T> of advanced-vector/vector.h, together with   *)
(* the earlier revision of the same header in which PushBack, EmplaceBack  *)
(* and Emplace are written out separately.                                 *)
(*                                                                         *)
(* The heap is a set of buffers; a buffer is a sequence of slots; a slot   *)
(* holds either no object (Uninit) or a live T with a value.  A Vector is  *)
(* its RawMemory (buffer_, capacity_) and its size_.  Every public member  *)
(* function is one action; a member that can throw takes the place of the  *)
(* throw as an input.                                                      *)
(***************************************************************************)
EXTENDS Integers, Sequences, FiniteSets, TLC

\* ------------------------------------------------------------------ bounds
\* operator new fails beyond this many slots allocated at once
MaxSlots == 4
\* the same bound for a program of two Vectors
MaxSlotsTwo == 3

\* ------------------------------------------------------------------ values
\* a slot of raw memory in which no T lives
Uninit == -1
\* the value a T is left with after it has been moved from
MovedFrom == -2
\* the value of T()
Default == 0

\* the values callers pass in
Vals == {1, 2}
\* what a read of raw memory as a T can yield
AnyT == Vals \cup {Default}
\* the Vector objects of the program; the second one is absent from a program
\* of one Vector
Vecs == {1, 2}
\* buffer addresses; 0 is nullptr.  One more than MaxSlots, so that a new
\* buffer has an address while the old one is still held.
BufIds == 1..(MaxSlots + 1)
nullptr == 0

\* the two revisions of the header
RevCurrent == "vector.h"
RevEarlier == "part_000"
Revs == {RevCurrent, RevEarlier}

\* the element types T that select the branches of CopyOrMove and decide
\* what can throw
\*   NothrowMove : is_nothrow_move_constructible_v<T>
\*   ThrowingCopy: move may throw, copy constructible: relocation copies
\*   MoveOnly    : move may throw, not copy constructible: relocation moves
Kinds == {"NothrowMove", "ThrowingCopy", "MoveOnly"}

VARIABLES
    heap,    \* heap[b]: the slots of buffer b, <<>> when b is not allocated
    vec,     \* vec[v]: [life, buf, cap, size] of Vector v
    kind,    \* the element type T
    rev,     \* the revision of the header that was compiled
    status,  \* "running", or how the process stopped being well defined
    faults,  \* lifetime errors so far
    last,    \* the call that has just returned or thrown
    trail    \* trail[v]: the values appended to Vector v since Vector(), while
             \* nothing but successful appends was called on it

vars == <<heap, vec, kind, rev, status, faults, last, trail>>

\* ------------------------------------------------------------------ helpers
Min(a, b) == IF a < b THEN a ELSE b

RECURSIVE SumLen(_, _)
SumLen(h, b) == IF b = 0 THEN 0 ELSE Len(h[b]) + SumLen(h, b - 1)

\* slots allocated and not yet released
TotalSlots(h) == SumLen(h, MaxSlots + 1)

Allocated(h) == {b \in BufIds : h[b] # <<>>}

\* slots lo..hi of a buffer (1-based, inclusive)
Slice(s, lo, hi) == IF hi < lo THEN <<>> ELSE SubSeq(s, lo, hi)

\* what reading the slots of s as T objects can yield: a live slot yields its
\* value, raw memory yields anything
Fetch(s) ==
    IF \A i \in 1..Len(s) : s[i] # Uninit THEN {s}
    ELSE {t \in [1..Len(s) -> AnyT] :
            \A i \in 1..Len(s) : s[i] # Uninit => t[i] = s[i]}

HasDead(s) == \E i \in 1..Len(s) : s[i] = Uninit

HasLive(s) == \E i \in 1..Len(s) : s[i] # Uninit

Fill(n, x) == [i \in 1..n |-> x]

\* the buffer of a Vector record, <<>> for nullptr
BufOf(h, d) == IF d.buf = nullptr THEN <<>> ELSE h[d.buf]

\* the elements of a Vector record: slots [0, size_)
ElemsOf(h, d) == Slice(BufOf(h, d), 1, Min(d.size, Len(BufOf(h, d))))

Elems(v) == ElemsOf(heap, vec[v])

\* CopyOrMove that moves whatever T is
UseMove_Always == TRUE

\* is_nothrow_move_constructible_v<T> || !is_copy_constructible_v<T>
UseMove == kind \in {"NothrowMove", "MoveOnly"}

\* the constructor CopyOrMove selects may throw
RelocMayThrow == kind # "NothrowMove"

\* ------------------------------------------------------------------ RawMemory
\* operator new: the lowest free address; nullptr for a count of 0
Allocate(h, count) ==
    IF count = 0 THEN nullptr
    ELSE CHOOSE b \in BufIds : h[b] = <<>> /\ \A c \in BufIds : h[c] = <<>> => b <= c

\* the heap after RawMemory(count)
AfterAllocate(h, count) ==
    IF count = 0 THEN h ELSE [h EXCEPT ![Allocate(h, count)] = Fill(count, Uninit)]

\* operator delete; of nullptr it does nothing
Deallocate(h, b) == IF b = nullptr THEN h ELSE [h EXCEPT ![b] = <<>>]

\* the model's bound on memory: a call that ends with `released` slots given
\* back and `count` new ones held is within it
SlotLimit == IF vec[2].life = "absent" THEN MaxSlots ELSE MaxSlotsTwo

CanAllocate(h, count, released) == TotalSlots(h) - released + count <= SlotLimit

\* ------------------------------------------------------------------ slots
\* std::destroy_n(buf + lo - 1, hi - lo + 1): the slots lo..hi hold no object
DestroyN(s, lo, hi) == [i \in 1..Len(s) |-> IF lo <= i /\ i <= hi THEN Uninit ELSE s[i]]

\* construct vals in the slots from index lo on
ConstructN(s, lo, vals) ==
    [i \in 1..Len(s) |-> IF lo <= i /\ i < lo + Len(vals) THEN vals[i - lo + 1] ELSE s[i]]

\* the source slots lo..hi after std::uninitialized_move_n took them
MovedOut(s, lo, hi) ==
    [i \in 1..Len(s) |-> IF lo <= i /\ i <= hi /\ s[i] # Uninit THEN MovedFrom ELSE s[i]]

\* the source of CopyOrMove(from + lo - 1, to, hi - lo + 1) afterwards: moved
\* from under the move branch, untouched under the copy branch
CopyOrMove(s, lo, hi) == IF UseMove THEN MovedOut(s, lo, hi) ELSE s

\* lifetime errors of a call: a destructor run on raw memory, raw memory
\* used as a T, a buffer given back with live objects in it
FDestroy(s) == IF HasDead(s) THEN {"destroy_dead"} ELSE {}

FRead(s) == IF HasDead(s) THEN {"dead_access"} ELSE {}

FRelease(s) == IF HasLive(s) THEN {"abandoned"} ELSE {}

\* what a call yields: the heap and the Vector after it, how it ended, what it
\* returned, the lifetime errors it made, and the state of the process
Res(h, d, out, ret, f, st) == [h |-> h, d |-> d, out |-> out, ret |-> ret, f |-> f, st |-> st]

Ok(h, d, ret, f) == Res(h, d, "ok", ret, f, "running")

\* the heap with the slots of buffer b replaced
Store(h, b, s) == IF b = nullptr THEN h ELSE [h EXCEPT ![b] = s]

\* ------------------------------------------------------------------ Vector
\* a Reserve that adopts the new buffer without relocating into it
Reserve_NoRelocation(h, d, new_capacity, src, k) ==
    IF new_capacity <= d.cap THEN Ok(h, d, 0, {})
    ELSE Ok(Deallocate(AfterAllocate(h, new_capacity), d.buf),
            [d EXCEPT !.buf = Allocate(h, new_capacity), !.cap = new_capacity], 0, {})

\* Reserve(new_capacity).  src: the elements as CopyOrMove reads them;
\* k: the element whose construction in the new buffer throws (0: none).
Reserve(h, d, new_capacity, src, k) ==
    IF new_capacity <= d.cap THEN Ok(h, d, 0, {})
    ELSE LET old == BufOf(h, d)
             nb == Allocate(h, new_capacity)
             h1 == AfterAllocate(h, new_capacity)
         IN IF k > 0
            THEN \* uninitialized_*_n destroys the k - 1 it built and rethrows;
                 \* ~RawMemory of new_data releases the new buffer
                 Res(Store(h, d.buf, CopyOrMove(old, 1, k - 1)), d, "throw_reloc", 0,
                     FRead(Slice(old, 1, k)), "running")
            ELSE LET stale == DestroyN(CopyOrMove(old, 1, d.size), 1, d.size)
                     h2 == Store(h1, nb, ConstructN(h1[nb], 1, src))
                 IN \* data_.Swap(new_data); ~RawMemory of new_data releases the old buffer
                    Ok(Deallocate(h2, d.buf), [d EXCEPT !.buf = nb, !.cap = new_capacity], 0,
                       FRead(Slice(old, 1, d.size)) \cup FDestroy(Slice(old, 1, d.size))
                           \cup FRelease(stale))

\* size_ after Resize(new_size) when neither branch of it ran
\* (Capacity() == new_size): vector.h assigns size_ after the branches,
\* the earlier revision inside them
ResizeFallThrough(d, new_size) ==
    IF rev = RevCurrent THEN [d EXCEPT !.size = new_size] ELSE d

\* Resize(new_size).  src, k: as for the Reserve it may call.
Resize(h, d, new_size, src, k) ==
    LET s == BufOf(h, d) IN
    IF d.cap > new_size
    THEN IF new_size < d.size
         THEN Ok(Store(h, d.buf, DestroyN(s, new_size + 1, d.size)),
                 [d EXCEPT !.size = new_size], 0, FDestroy(Slice(s, new_size + 1, d.size)))
         ELSE IF new_size > d.size
         THEN Ok(Store(h, d.buf, ConstructN(s, d.size + 1, Fill(new_size - d.size, Default))),
                 [d EXCEPT !.size = new_size], 0, {})
         ELSE Ok(h, ResizeFallThrough(d, new_size), 0, {})
    ELSE IF d.cap < new_size
    THEN LET r == Reserve(h, d, new_size, src, k) IN
         IF r.out # "ok" THEN r
         ELSE Ok(Store(r.h, r.d.buf,
                       ConstructN(r.h[r.d.buf], d.size + 1, Fill(new_size - d.size, Default))),
                 [r.d EXCEPT !.size = new_size], 0, r.f)
    ELSE Ok(h, ResizeFallThrough(d, new_size), 0, {})

\* PopBack(): std::destroy_at(data_ + size_ - 1); --size_
PopBack(h, d) ==
    LET s == BufOf(h, d) IN
    Ok(Store(h, d.buf, DestroyN(s, d.size, d.size)), [d EXCEPT !.size = d.size - 1], 0,
       FDestroy(Slice(s, d.size, d.size)))

\* a move from data_ + position on: nothing shifts
ShiftLeft_NoShift(s, position, size, src) == s

\* the slots after std::move(data_ + position + 1, data_ + size_, data_ + position):
\* each element behind position is move-assigned one slot to the left
ShiftLeft(s, position, size, src) ==
    [i \in 1..Len(s) |->
        IF position + 1 <= i /\ i < size THEN src[i + 1]
        ELSE IF i = size /\ position + 1 < size /\ s[i] # Uninit THEN MovedFrom
        ELSE s[i]]

\* an Erase that drops the last element whatever the position
Erase_Last(h, d, position, src) ==
    Ok(Store(h, d.buf, DestroyN(BufOf(h, d), d.size, d.size)),
       [d EXCEPT !.size = d.size - 1], position, {})

\* Erase(begin() + position).  src: the elements as the move reads them.
Erase(h, d, position, src) ==
    LET s == BufOf(h, d) IN
    IF position = d.size
    THEN LET at == IF rev = RevCurrent THEN d.size ELSE d.size + 1 IN
         Ok(Store(h, d.buf, DestroyN(s, at, at)), [d EXCEPT !.size = d.size - 1], position,
            FDestroy(Slice(s, at, at)))
    ELSE LET moved == ShiftLeft(s, position, d.size, src) IN
         Ok(Store(h, d.buf, DestroyN(moved, d.size, d.size)),
            [d EXCEPT !.size = d.size - 1], position,
            (IF position + 1 < d.size THEN FRead(Slice(s, position + 1, d.size)) ELSE {})
                \cup FDestroy(Slice(s, d.size, d.size)))

\* growth by one slot
GrownCapacity_ByOne(d) == d.cap + 1

\* the capacity EmplaceWithAllocate asks for: RawMemory<T> temp(size_ + 1) from
\* empty, temp(data_.Capacity() * 2) otherwise
GrownCapacity(d) == IF d.size = 0 THEN d.size + 1 ELSE d.cap * 2

\* x constructed at temp.GetAddress(), as in the branch for an empty Vector
InsertAt_Front(src, position, x) == <<x>> \o src

\* the new buffer's elements: x constructed at temp + position, the prefix
\* relocated to temp, the suffix to temp + position + 1
InsertAt(src, position, x) ==
    Slice(src, 1, position) \o <<x>> \o Slice(src, position + 1, Len(src))

\* what operator delete(end()) in the catch block of the in-place insertion
\* can do.  With size_ == 0, end() is the buffer itself and the buffer is
\* released under the Vector.  Otherwise end() points into the buffer, which
\* operator new never returned: the allocator may ignore it, abort, or release
\* the block (u).
DeleteOutcomes == {"ignored", "aborted", "released"}

CatchDeleteEnd(h, d, out, f, u) ==
    IF d.size = 0 \/ u = "released"
    THEN Res(Deallocate(h, d.buf), d, out, 0,
             f \cup FRelease(BufOf(h, d)) \cup (IF d.size = 0 THEN {} ELSE {"bad_delete"}),
             "dangling")
    ELSE Res(h, d, out, 0, f \cup {"bad_delete"}, IF u = "aborted" THEN "aborted" ELSE "running")

\* EmplaceWithAllocate(position, args...), size_ == Capacity().
\* fail: -1 when T(args...) throws, k > 0 when the k-th relocation throws, else 0.
EmplaceWithAllocate(h, d, position, x, src, fail) ==
    LET old == BufOf(h, d)
        n == GrownCapacity(d)
        nb == Allocate(h, n)
        h1 == AfterAllocate(h, n)
    IN IF fail = -1 THEN Res(h, d, "throw_ctor", 0, {}, "running")
       ELSE IF d.size = 0
       THEN Ok(Deallocate(Store(h1, nb, ConstructN(h1[nb], 1, <<x>>)), d.buf),
               [d EXCEPT !.buf = nb, !.cap = n], 0, {})
       ELSE IF fail > 0
       THEN \* the CopyOrMove that threw destroyed what it had built; x at
            \* temp + position, and the prefix when the suffix threw, are live
            \* in temp when ~RawMemory releases it
            Res(Store(h, d.buf, CopyOrMove(old, 1, fail - 1)), d, "throw_reloc", 0,
                FRead(Slice(old, 1, fail)) \cup {"abandoned"}, "running")
       ELSE LET stale == DestroyN(CopyOrMove(old, 1, d.size), 1, d.size)
                h2 == Store(h1, nb, ConstructN(h1[nb], 1, InsertAt(src, position, x)))
            IN Ok(Deallocate(h2, d.buf), [d EXCEPT !.buf = nb, !.cap = n], 0,
                  FRead(Slice(old, 1, d.size)) \cup FDestroy(Slice(old, 1, d.size))
                      \cup FRelease(stale))

\* an in-place insertion without move_backward: new_elem is assigned over
\* the element at position
InPlace_NoShift(s, position, size, x, src, done) ==
    [i \in 1..Len(s) |->
        IF done = 0 THEN s[i]
        ELSE IF i = size + 1 THEN src[size]
        ELSE IF i = position + 1 /\ done = size - position + 1 THEN x
        ELSE s[i]]

\* the slots of the in-place insertion after `done` of its steps behind
\* T new_elem = T(args...): the move construction of the last element at
\* data_ + size_, the size_ - 1 - position move assignments of move_backward,
\* the move assignment of new_elem to begin() + position
InPlace(s, position, size, x, src, done) ==
    LET steps == size - position + 1
        t == Min(done - 1, size - 1 - position)
    IN [i \in 1..Len(s) |->
          IF done = 0 THEN s[i]
          ELSE IF i = size + 1 THEN src[size]
          ELSE IF size - t < i /\ i <= size THEN src[i - 1]
          ELSE IF i = size - t
               THEN (IF done = steps THEN x ELSE IF s[i] = Uninit THEN Uninit ELSE MovedFrom)
          ELSE s[i]]

\* the append without reallocation: new (data_ + size_) T(args...).  The
\* earlier revision has it inside the try block.
AppendInPlace(h, d, x, fail, u, guarded) ==
    IF fail = -1
    THEN (IF guarded THEN CatchDeleteEnd(h, d, "throw_ctor", {}, u)
          ELSE Res(h, d, "throw_ctor", 0, {}, "running"))
    ELSE Ok(Store(h, d.buf, ConstructN(BufOf(h, d), d.size + 1, <<x>>)), d, 0, {})

\* EmplaceWithoutAllocate(position, args...), size_ < Capacity().
\* fail: -1 when T(args...) throws, k > 0 when the k-th step behind it throws.
EmplaceWithoutAllocate(h, d, position, x, src, fail, u) ==
    LET s == BufOf(h, d) IN
    IF position < d.size
    THEN IF fail = -1 THEN CatchDeleteEnd(h, d, "throw_ctor", {}, u)
         ELSE IF fail > 0
         THEN CatchDeleteEnd(Store(h, d.buf, InPlace(s, position, d.size, x, src, fail - 1)),
                             d, "throw_step", FRead(Slice(s, position + 1, d.size)), u)
         ELSE Ok(Store(h, d.buf,
                       InPlace(s, position, d.size, x, src, d.size - position + 1)),
                 d, 0, FRead(Slice(s, position + 1, d.size)))
    ELSE AppendInPlace(h, d, x, fail, u, rev = RevEarlier)

\* Emplace(begin() + position, args...): the element is x
Emplace(h, d, position, x, src, fail, u) ==
    LET r == IF d.size = d.cap
             THEN EmplaceWithAllocate(h, d, position, x, src, fail)
             ELSE EmplaceWithoutAllocate(h, d, position, x, src, fail, u)
    IN IF r.out # "ok" THEN r
       ELSE [r EXCEPT !.d = [r.d EXCEPT !.size = d.size + 1], !.ret = position]

\* PushBack(elem): Emplace(cend(), elem) in vector.h; written out in the
\* earlier revision, with no try block around the append
PushBack(h, d, x, src, fail, u) ==
    IF rev = RevCurrent THEN Emplace(h, d, d.size, x, src, fail, u)
    ELSE LET r == IF d.cap = d.size
                  THEN EmplaceWithAllocate(h, d, d.size, x, src, fail)
                  ELSE AppendInPlace(h, d, x, fail, u, FALSE)
         IN IF r.out # "ok" THEN r
            ELSE [r EXCEPT !.d = [r.d EXCEPT !.size = d.size + 1], !.ret = d.size]

\* EmplaceBack(args...): *Emplace(cend(), args...) in vector.h; in the earlier
\* revision the same text as PushBack
EmplaceBack(h, d, x, src, fail, u) == PushBack(h, d, x, src, fail, u)

\* operator[](index) = x: the element at index is assigned
Subscript(h, d, index, x) ==
    LET s == BufOf(h, d) IN
    Ok(Store(h, d.buf, [s EXCEPT ![index + 1] = x]), d, 0, FRead(Slice(s, index + 1, index + 1)))

\* ------------------------------------------------------------------ two Vectors
\* what a call on two Vectors yields: d is *this, e is other
Res2(h, d, e, out, f) ==
    [h |-> h, d |-> d, e |-> e, out |-> out, ret |-> 0, f |-> f, st |-> "running"]

\* a Vector that is not constructed
NoVector == [life |-> "dead", buf |-> nullptr, cap |-> 0, size |-> 0]

\* the second Vector of a program that has only one
Absent == [life |-> "absent", buf |-> nullptr, cap |-> 0, size |-> 0]

\* Vector()
Empty == [life |-> "alive", buf |-> nullptr, cap |-> 0, size |-> 0]

\* Vector(count): data_(count), size_(count), value-constructed elements
SizedVector(h, count) ==
    LET nb == Allocate(h, count)
        h1 == AfterAllocate(h, count)
    IN Ok(Store(h1, nb, Fill(count, Default)),
          [life |-> "alive", buf |-> nb, cap |-> count, size |-> count], 0, {})

\* a copy constructor that takes over other's buffer_ as it is
CopyVector_Shared(h, e, src, k) ==
    Res2(h, [life |-> "alive", buf |-> e.buf, cap |-> e.cap, size |-> e.size], e, "ok", {})

\* Vector(const Vector& other): data_(other.size_), the elements copied.
\* k: the element whose copy throws (0: none); then the copies made are
\* destroyed, data_ is released and no Vector exists.
CopyVector(h, e, src, k) ==
    LET nb == Allocate(h, e.size)
        h1 == AfterAllocate(h, e.size)
    IN IF k > 0
       THEN Res2(h, NoVector, e, "throw_copy", FRead(Slice(BufOf(h, e), 1, k)))
       ELSE Res2(Store(h1, nb, src),
                 [life |-> "alive", buf |-> nb, cap |-> e.size, size |-> e.size], e, "ok",
                 FRead(Slice(BufOf(h, e), 1, e.size)))

\* a move of RawMemory that leaves *this with what it held
MoveRawMemory_Keep(d, e) == d

\* RawMemory(RawMemory&&) and RawMemory::operator=(RawMemory&&): *this takes
\* other's buffer_ and capacity_, other is left with nullptr and 0.  What
\* *this held is neither released nor handed over.
MoveRawMemory(d, e) == [d EXCEPT !.buf = e.buf, !.cap = e.cap]

\* a move constructor whose RawMemory(RawMemory&&) leaves other.capacity_ as it is
MoveVector_KeepCapacity(h, e) ==
    Res2(h, [MoveRawMemory(Empty, e) EXCEPT !.size = e.size],
         [e EXCEPT !.buf = nullptr, !.size = 0], "ok", {})

\* Vector(Vector&& other)
MoveVector(h, e) ==
    Res2(h, [MoveRawMemory(Empty, e) EXCEPT !.size = e.size],
         [e EXCEPT !.buf = nullptr, !.cap = 0, !.size = 0], "ok", {})

\* ~Vector(): DestroyN(data_.GetAddress(), size_), then ~RawMemory
Destructor(h, d) ==
    LET s == BufOf(h, d)
        dead == DestroyN(s, 1, d.size)
    IN Ok(Deallocate(h, d.buf), NoVector, 0, FDestroy(Slice(s, 1, d.size)) \cup FRelease(dead))

\* a Swap that exchanges size_ and leaves data_ where it is
Swap_SizeOnly(h, d, e) ==
    Res2(h, [d EXCEPT !.size = e.size], [e EXCEPT !.size = d.size], "ok", {})

\* Swap(other): RawMemory::Swap and the exchange of size_
Swap(h, d, e) ==
    Res2(h, [d EXCEPT !.buf = e.buf, !.cap = e.cap, !.size = e.size],
         [e EXCEPT !.buf = d.buf, !.cap = d.cap, !.size = d.size], "ok", {})

\* operator=(Vector&& other), this != &other
MoveAssign(h, d, e) ==
    Res2(h, [MoveRawMemory(d, e) EXCEPT !.size = e.size],
         [e EXCEPT !.buf = nullptr, !.cap = 0, !.size = 0], "ok", {})

\* a copy assignment within capacity that assigns and constructs nothing
AssignWithin_Keep(s, size, src, k) == s

\* the slots of *this after the copy assignment within capacity has done k - 1
\* of its element copies (all of them for k = 0): std::copy assigns over the
\* common prefix, uninitialized_copy_n constructs behind it and destroys what
\* it built when it throws, destroy_n drops the excess
AssignWithin(s, size, src, k) ==
    LET m == Len(src)
        done == IF k = 0 THEN m ELSE k - 1
    IN [i \in 1..Len(s) |->
          IF i <= Min(done, Min(size, m)) THEN src[i]
          ELSE IF i > size /\ i <= m /\ k = 0 THEN src[i]
          ELSE IF i > m /\ i <= size /\ k = 0 THEN Uninit
          ELSE s[i]]

\* a copy assignment that destroys the elements of *this before it copies
CopyAssign_ClearFirst(h, d, e, src, k) ==
    Res2(Store(h, d.buf, DestroyN(BufOf(h, d), 1, d.size)), [d EXCEPT !.size = 0], e,
         IF k = 0 THEN "ok" ELSE "throw_copy", {})

\* operator=(const Vector& other), this != &other.  k: the element whose copy
\* throws (0: none).
CopyAssign(h, d, e, src, k) ==
    IF d.cap < e.size
    THEN \* Vector temp(other); Swap(temp); ~Vector of temp
         LET c == CopyVector(h, e, src, k) IN
         IF c.out # "ok" THEN Res2(h, d, e, "throw_copy", c.f)
         ELSE LET t == Destructor(c.h, d) IN
              Res2(t.h, [c.d EXCEPT !.life = d.life], e, "ok", c.f \cup t.f)
    ELSE LET s == BufOf(h, d)
             after == AssignWithin(s, d.size, src, k)
         IN Res2(Store(h, d.buf, after),
                 IF k = 0 THEN [d EXCEPT !.size = e.size] ELSE d, e,
                 IF k = 0 THEN "ok" ELSE "throw_copy",
                 FRead(Slice(BufOf(h, e), 1, IF k = 0 THEN e.size ELSE k))
                     \cup (IF k = 0 /\ e.size < d.size
                           THEN FDestroy(Slice(s, e.size + 1, d.size)) ELSE {}))

\* ------------------------------------------------------------------ actions
Running == status = "running"

Alive(v) == vec[v].life = "alive"

\* an object went with a released buffer, or no Vector holds some buffer
Leaked ==
    \/ "abandoned" \in faults
    \/ \E b \in BufIds : heap[b] # <<>> /\ \A v \in Vecs : ~Alive(v) \/ vec[v].buf # b

\* a program that has leaked is followed only through its destructors
Sound == Running /\ ~Leaked

\* the call is an Erase that follows at once the successful Emplace at the
\* same position of the same Vector
Undoes(op, v, n, r) ==
    /\ op = "Erase" /\ r.out = "ok"
    /\ last.op = "Emplace" /\ last.out = "ok" /\ last.v = v /\ last.n = n

\* the calls that change one Vector
Mutations ==
    {"Reserve", "Resize", "PushBack", "EmplaceBack", "Emplace", "PopBack", "Erase", "Subscript"}

\* the calls that make one Vector from the other
Transfers == {"VectorCopy", "VectorMove", "MoveAssign"}

\* the copy or move that the call follows at once, when the call is a
\* successful PushBack on one of the two Vectors of it; "none" otherwise
Follows(op, r) ==
    IF /\ op = "PushBack" /\ r.out = "ok"
       /\ last.op \in Transfers /\ last.out = "ok" /\ last.v # last.w
    THEN last.op ELSE "none"

\* the call that has just ended: its name, the Vector it was made on and the
\* other Vector, its arguments, how it ended and what it returned, and size_,
\* capacity_ and buffer_ of the Vector before it.  Of a successful Emplace the
\* elements before it are kept, through the Erase that undoes it.
Call(op, v, w, n, x, r) ==
    [op |-> op, v |-> v, w |-> w, n |-> n, x |-> x, out |-> r.out, ret |-> r.ret,
     size |-> vec[v].size, cap |-> vec[v].cap, buf |-> vec[v].buf,
     undo |-> Undoes(op, v, n, r), prior |-> Follows(op, r),
     elems |-> IF op = "Emplace" /\ r.out = "ok" THEN Elems(v)
               ELSE IF Undoes(op, v, n, r) THEN last.elems
               ELSE <<>>]

NoCall ==
    [op |-> "none", v |-> 0, w |-> 0, n |-> 0, x |-> 0, out |-> "ok", ret |-> 0,
     size |-> 0, cap |-> 0, buf |-> nullptr, undo |-> FALSE, prior |-> "none",
     elems |-> <<>>]

\* the lifetime errors that are undefined behaviour; a leak is not
Undefined == {"destroy_dead", "dead_access", "bad_delete"}

\* the process after a call: what follows undefined behaviour is not followed
After(r) == IF r.st = "running" /\ r.f \cap Undefined # {} THEN "undefined" ELSE r.st

\* no record of appends: something else was called since Vector()
NoTrail == <<Uninit>>

Appends == {"PushBack", "EmplaceBack"}

TrailAfter(op, v, x, r) ==
    IF op = "Vector" THEN <<>>
    ELSE IF op \in Appends /\ r.out = "ok" /\ trail[v] # NoTrail THEN Append(trail[v], x)
    ELSE NoTrail

\* the call op(n, x) on Vector v ended as r
Apply(op, v, n, x, r) ==
    /\ heap' = r.h
    /\ vec' = [vec EXCEPT ![v] = r.d]
    /\ faults' = faults \cup r.f
    /\ status' = After(r)
    /\ last' = Call(op, v, v, n, x, r)
    /\ trail' = [trail EXCEPT ![v] = TrailAfter(op, v, x, r)]
    /\ UNCHANGED <<kind, rev>>

\* the call op on Vector v with the other Vector w ended as r
Apply2(op, v, w, r) ==
    /\ heap' = r.h
    /\ vec' = [vec EXCEPT ![w] = r.e, ![v] = r.d]
    /\ faults' = faults \cup r.f
    /\ status' = After(r)
    /\ last' = Call(op, v, w, 0, 0, r)
    /\ trail' = [trail EXCEPT ![v] = NoTrail, ![w] = NoTrail]
    /\ UNCHANGED <<kind, rev>>

\* the relocations of a call that can throw: none for a nothrow move
Throwing(count) == IF RelocMayThrow THEN 0..count ELSE {0}

DoDefaultCtor(v) ==
    /\ Sound /\ vec[v].life = "dead"
    /\ Apply("Vector", v, 0, 0, Ok(heap, Empty, 0, {}))

DoSizedCtor(v) ==
    /\ Sound /\ vec[v].life = "dead"
    /\ \E count \in 0..SlotLimit :
          /\ CanAllocate(heap, count, 0)
          /\ Apply("VectorN", v, count, 0, SizedVector(heap, count))

DoCopyCtor(v, w) ==
    /\ Sound /\ vec[v].life = "dead" /\ Alive(w) /\ kind # "MoveOnly"
    /\ CanAllocate(heap, vec[w].size, 0)
    /\ \E src \in Fetch(Elems(w)), k \in 0..vec[w].size :
          Apply2("VectorCopy", v, w, CopyVector(heap, vec[w], src, k))

DoMoveCtor(v, w) ==
    /\ Sound /\ vec[v].life = "dead" /\ Alive(w)
    /\ Apply2("VectorMove", v, w, MoveVector(heap, vec[w]))

DoDestructor(v) ==
    /\ Running /\ Alive(v)
    /\ Apply("~Vector", v, 0, 0, Destructor(heap, vec[v]))

DoReserve(v) ==
    /\ Sound /\ Alive(v)
    /\ \E n \in 0..SlotLimit :
          /\ n > vec[v].cap => CanAllocate(heap, n, vec[v].cap)
          /\ \E src \in Fetch(Elems(v)),
                k \in IF n > vec[v].cap THEN Throwing(vec[v].size) ELSE {0} :
                Apply("Reserve", v, n, 0, Reserve(heap, vec[v], n, src, k))

DoResize(v) ==
    /\ Sound /\ Alive(v)
    /\ \E n \in 0..SlotLimit :
          /\ n > vec[v].cap => CanAllocate(heap, n, vec[v].cap)
          /\ \E src \in Fetch(Elems(v)),
                k \in IF n > vec[v].cap THEN Throwing(vec[v].size) ELSE {0} :
                Apply("Resize", v, n, 0, Resize(heap, vec[v], n, src, k))

\* the throws of an insertion at position: T(args...) (-1), and behind it the
\* relocations of the reallocating path or the steps of the in-place path
Failures(d, position) ==
    {-1} \cup (IF d.size = d.cap THEN Throwing(d.size)
               ELSE IF position < d.size THEN Throwing(d.size - position + 1)
               ELSE {0})

\* what the catch block can do, where the call reaches it with end() inside
\* the buffer
Deletes(d, position, fail) ==
    IF fail # 0 /\ d.size < d.cap /\ d.size > 0 /\ (position < d.size \/ rev = RevEarlier)
    THEN DeleteOutcomes ELSE {"ignored"}

DoPushBack(v) ==
    /\ Sound /\ Alive(v)
    /\ vec[v].size = vec[v].cap => CanAllocate(heap, GrownCapacity(vec[v]), vec[v].cap)
    /\ \E x \in Vals, src \in Fetch(Elems(v)), fail \in Failures(vec[v], vec[v].size) :
          Apply("PushBack", v, vec[v].size, x, PushBack(heap, vec[v], x, src, fail, "ignored"))

DoEmplaceBack(v) ==
    /\ Sound /\ Alive(v)
    /\ vec[v].size = vec[v].cap => CanAllocate(heap, GrownCapacity(vec[v]), vec[v].cap)
    /\ \E x \in Vals, src \in Fetch(Elems(v)), fail \in Failures(vec[v], vec[v].size) :
          Apply("EmplaceBack", v, vec[v].size, x,
                EmplaceBack(heap, vec[v], x, src, fail, "ignored"))

DoEmplace(v) ==
    /\ Sound /\ Alive(v)
    /\ vec[v].size = vec[v].cap => CanAllocate(heap, GrownCapacity(vec[v]), vec[v].cap)
    /\ \E position \in 0..vec[v].size, x \in Vals, src \in Fetch(Elems(v)) :
          \E fail \in Failures(vec[v], position) :
             \E u \in Deletes(vec[v], position, fail) :
                Apply("Emplace", v, position, x,
                      Emplace(heap, vec[v], position, x, src, fail, u))

DoPopBack(v) ==
    /\ Sound /\ Alive(v) /\ vec[v].size > 0
    /\ Apply("PopBack", v, 0, 0, PopBack(heap, vec[v]))

DoErase(v) ==
    /\ Sound /\ Alive(v)
    /\ \E position \in 0..(vec[v].size - 1), src \in Fetch(Elems(v)) :
          Apply("Erase", v, position, 0, Erase(heap, vec[v], position, src))

DoSubscript(v) ==
    /\ Sound /\ Alive(v)
    /\ \E index \in 0..(vec[v].size - 1), x \in Vals :
          Apply("Subscript", v, index, x, Subscript(heap, vec[v], index, x))

DoSwap(v, w) ==
    /\ Sound /\ Alive(v) /\ Alive(w)
    /\ Apply2("Swap", v, w, Swap(heap, vec[v], vec[w]))

DoCopyAssign(v, w) ==
    /\ Sound /\ Alive(v) /\ Alive(w) /\ kind # "MoveOnly"
    /\ IF v = w THEN Apply2("CopyAssign", v, w, Res2(heap, vec[v], vec[w], "ok", {}))
       ELSE \E src \in Fetch(Elems(w)), k \in 0..vec[w].size :
               \* a copy that throws ends with no new buffer held
               /\ (k = 0 /\ vec[v].cap < vec[w].size) =>
                     CanAllocate(heap, vec[w].size, vec[v].cap)
               /\ Apply2("CopyAssign", v, w, CopyAssign(heap, vec[v], vec[w], src, k))

DoMoveAssign(v, w) ==
    /\ Sound /\ Alive(v) /\ Alive(w)
    /\ Apply2("MoveAssign", v, w,
              IF v = w THEN Res2(heap, vec[v], vec[w], "ok", {})
              ELSE MoveAssign(heap, vec[v], vec[w]))

Init ==
    /\ heap = [b \in BufIds |-> <<>>]
    /\ vec = [v \in Vecs |-> IF v = 1 THEN NoVector ELSE Absent]
    /\ kind \in Kinds
    /\ rev \in Revs
    /\ status = "running"
    /\ faults = {}
    /\ last = NoCall
    /\ trail = [v \in Vecs |-> NoTrail]

\* a program of one Vector
Next ==
    \/ DoDefaultCtor(1)
    \/ DoSizedCtor(1)
    \/ DoDestructor(1)
    \/ DoReserve(1)
    \/ DoResize(1)
    \/ DoPushBack(1)
    \/ DoEmplaceBack(1)
    \/ DoEmplace(1)
    \/ DoPopBack(1)
    \/ DoErase(1)
    \/ DoSubscript(1)

Spec == Init /\ [][Next]_vars

\* a program of two Vectors
InitTwo ==
    /\ heap = [b \in BufIds |-> <<>>]
    /\ vec = [v \in Vecs |-> NoVector]
    /\ kind \in Kinds
    /\ rev \in Revs
    /\ status = "running"
    /\ faults = {}
    /\ last = NoCall
    /\ trail = [v \in Vecs |-> NoTrail]

NextTwo ==
    \/ \E v \in Vecs : DoDefaultCtor(v)
    \/ \E v \in Vecs : DoSizedCtor(v)
    \/ \E v \in Vecs, w \in Vecs : DoCopyCtor(v, w)
    \/ \E v \in Vecs, w \in Vecs : DoMoveCtor(v, w)
    \/ \E v \in Vecs : DoDestructor(v)
    \/ \E v \in Vecs : DoReserve(v)
    \/ \E v \in Vecs : DoResize(v)
    \/ \E v \in Vecs : DoPushBack(v)
    \/ \E v \in Vecs : DoEmplaceBack(v)
    \/ \E v \in Vecs : DoEmplace(v)
    \/ \E v \in Vecs : DoPopBack(v)
    \/ \E v \in Vecs : DoErase(v)
    \/ \E v \in Vecs : DoSubscript(v)
    \/ \E v \in Vecs, w \in Vecs : DoSwap(v, w)
    \/ \E v \in Vecs, w \in Vecs : DoCopyAssign(v, w)
    \/ \E v \in Vecs, w \in Vecs : DoMoveAssign(v, w)

SpecTwo == InitTwo /\ [][NextTwo]_vars

\* a program of two Vectors in which no call throws
NextTwoOk == NextTwo /\ last'.out = "ok"

SpecTwoOk == InitTwo /\ [][NextTwoOk]_vars

\* ------------------------------------------------------------------ claims
\* slots [0, size_) of a live Vector hold an object, slots [size_, capacity_)
\* hold none, and size_ <= capacity_
WellFormed(v) ==
    LET d == vec[v]
        s == BufOf(heap, d)
    IN /\ d.size <= d.cap
       /\ Len(s) = d.cap
       /\ \A i \in 1..Len(s) : (i <= d.size) <=> (s[i] # Uninit)

\* C1: after any sequence of successful public operations on an array,
\* size() <= capacity(), every slot in [0, size()) holds a live element and no
\* slot in [size(), capacity()) holds one.
C1_Invariant == \A v \in Vecs : Alive(v) => WellFormed(v)

\* C2: a successful Resize(n) leaves size() == n, keeps the first
\* min(old size, n) elements, default-constructs the n - old size new trailing
\* elements, and makes the capacity exactly n when n exceeded it.
C2_Resize ==
    [][(last'.op = "Resize" /\ last'.out = "ok") =>
          LET v == last'.v
              n == last'.n
              old == BufOf(heap, vec[v])
              new == BufOf(heap', vec'[v])
          IN /\ vec'[v].size = n
             /\ \A i \in 1..Min(vec[v].size, n) : old[i] # Uninit => new[i] = old[i]
             /\ \A i \in (vec[v].size + 1)..n : new[i] = Default
             /\ n > vec[v].cap => vec'[v].cap = n]_vars

AllDestroyed == \A v \in Vecs : vec[v].life = "dead"

\* C3: once every array has been destroyed, after successful operations only,
\* no buffer that was allocated is still allocated and no constructed element
\* went undestructed; move assignment onto a non-empty array included.
C3_NothingLeft ==
    (AllDestroyed /\ last.op = "~Vector") =>
        Allocated(heap) = {} /\ "abandoned" \notin faults

\* C4: from an empty array, after k appends size() == k and element i is the
\* i-th value appended, however many reallocations there were.
C4_AppendOrder ==
    \A v \in Vecs :
        (Alive(v) /\ trail[v] # NoTrail) =>
            vec[v].size = Len(trail[v]) /\ Elems(v) = trail[v]

\* three appends of differing values from empty, through the reallocations
\* 0 -> 1 -> 2 -> 4
C4_Witness ==
    /\ Alive(1) /\ last.op \in Appends /\ last.out = "ok"
    /\ trail[1] = <<1, 2, 1>> /\ vec[1].cap = 4 /\ last.cap = 2

Insertions == {"PushBack", "EmplaceBack", "Emplace"}

\* C5: an append or insert on a full array leaves capacity 1 when it was 0 and
\* twice the old capacity otherwise; on an array with spare capacity it leaves
\* capacity and buffer as they were.
C5_Growth ==
    (last.op \in Insertions /\ last.out = "ok") =>
        IF last.size = last.cap
        THEN vec[last.v].cap = (IF last.cap = 0 THEN 1 ELSE 2 * last.cap)
        ELSE vec[last.v].cap = last.cap /\ vec[last.v].buf = last.buf

\* an insertion in the middle of a full array of two doubles its capacity
C5_Witness ==
    /\ last.op = "Emplace" /\ last.out = "ok"
    /\ last.size = 2 /\ last.cap = 2 /\ last.n = 1 /\ vec[last.v].cap = 4

\* C6: a successful Reserve(n) never decreases capacity, leaves size() and
\* every element unchanged, changes nothing when n <= capacity(), and makes
\* the capacity exactly n when n > capacity().
C6_Reserve ==
    [][(last'.op = "Reserve" /\ last'.out = "ok") =>
          LET v == last'.v
              n == last'.n
              old == BufOf(heap, vec[v])
              new == BufOf(heap', vec'[v])
          IN /\ vec'[v].cap >= vec[v].cap
             /\ vec'[v].size = vec[v].size
             /\ \A i \in 1..vec[v].size : old[i] # Uninit => new[i] = old[i]
             /\ n <= vec[v].cap => heap' = heap /\ vec' = vec
             /\ n > vec[v].cap => vec'[v].cap = n /\ Len(new) = n]_vars

\* a Reserve(4) of an array <<1, 2>> of capacity 2
C6_Witness ==
    /\ last.op = "Reserve" /\ last.out = "ok" /\ last.n = 4 /\ last.cap = 2
    /\ Alive(1) /\ Elems(1) = <<1, 2>> /\ vec[1].cap = 4

\* C7 as claimed: when relocation into the new buffer throws, during Reserve
\* or a reallocating append or insert, the array is unmodified for every
\* element type: same size(), capacity() and buffer, every element its value.
C7_Unmodified ==
    [][last'.out = "throw_reloc" => vec' = vec /\ heap' = heap]_vars

\* C7 as it holds: size(), capacity() and buffer are as before for every
\* element type; every element keeps its value when T is copy constructible;
\* when T is not, the elements moved before the throw are left moved-from and
\* the others keep their value.
C7_UnmodifiedUnlessMoveOnly ==
    [][last'.out = "throw_reloc" =>
          /\ vec' = vec
          /\ kind # "MoveOnly" => heap' = heap
          /\ \A b \in BufIds :
                /\ Len(heap'[b]) = Len(heap[b])
                /\ \A i \in 1..Len(heap[b]) : heap'[b][i] \in {heap[b][i], MovedFrom}]_vars

\* the copy of the second of two elements threw in a reallocating insertion
C7_Witness ==
    /\ last.op = "Emplace" /\ last.out = "throw_reloc" /\ kind = "ThrowingCopy"
    /\ last.size = 2 /\ last.cap = 2 /\ Alive(1) /\ Elems(1) = <<1, 2>>
    /\ vec[1].cap = 2 /\ vec[1].buf = last.buf

\* C8: a successful insertion of x at position p of e[0..len) gives
\* e[0..p), x, e[p..len), size() == len + 1, and returns position p, with and
\* without reallocation.
C8_Insert ==
    [][(last'.op = "Emplace" /\ last'.out = "ok") =>
          LET v == last'.v
              p == last'.n
              len == vec[v].size
              old == BufOf(heap, vec[v])
              new == BufOf(heap', vec'[v])
          IN /\ vec'[v].size = len + 1
             /\ last'.ret = p
             /\ \A i \in 1..p : old[i] # Uninit => new[i] = old[i]
             /\ new[p + 1] = last'.x
             /\ \A i \in (p + 1)..len : old[i] # Uninit => new[i + 1] = old[i]]_vars

\* 2 inserted in place at position 1 of <<1, 1, 2>>
C8_Witness ==
    /\ last.op = "Emplace" /\ last.out = "ok" /\ last.n = 1 /\ last.x = 2
    /\ last.size = 3 /\ last.cap = 4 /\ Alive(1) /\ Elems(1) = <<1, 2, 1, 2>>

\* C9: when the constructor of the new element throws in an insertion at
\* p < size() < capacity(), size(), capacity, buffer and elements are as
\* before and no memory of the array has been released.
C9_CtorThrowKeeps ==
    [][(last'.op = "Emplace" /\ last'.out = "throw_ctor"
            /\ last'.n < last'.size /\ last'.size < last'.cap) =>
          vec' = vec /\ heap' = heap]_vars

\* C10: Erase at position p of e[0..len) gives e[0..p), e[p+1..len),
\* size() == len - 1 and the same capacity, destructs the vacated last slot
\* once, returns position p, and at p == len - 1 does what PopBack does.
C10_Erase ==
    [][(last'.op = "Erase" /\ last'.out = "ok") =>
          LET v == last'.v
              p == last'.n
              len == vec[v].size
              old == BufOf(heap, vec[v])
              new == BufOf(heap', vec'[v])
          IN /\ vec'[v] = [vec[v] EXCEPT !.size = len - 1]
             /\ last'.ret = p
             /\ \A i \in 1..p : old[i] # Uninit => new[i] = old[i]
             /\ \A i \in (p + 2)..len : old[i] # Uninit => new[i - 1] = old[i]
             /\ new[len] = Uninit
             /\ old[len] # Uninit => "destroy_dead" \notin (faults' \ faults)
             /\ p = len - 1 =>
                   /\ heap' = PopBack(heap, vec[v]).h
                   /\ vec'[v] = PopBack(heap, vec[v]).d]_vars

\* the first of <<1, 2, 1>> erased
C10_Witness ==
    /\ last.op = "Erase" /\ last.out = "ok" /\ last.n = 0 /\ last.size = 3
    /\ Alive(1) /\ Elems(1) = <<2, 1>> /\ vec[1].cap = 4

\* C11: an insertion at a valid position p followed by Erase at p leaves
\* size() and the sequence of elements as they were before the insertion.
C11_InsertErase ==
    (last.op = "Erase" /\ last.undo) =>
        /\ vec[last.v].size = Len(last.elems)
        /\ Elems(last.v) = last.elems

\* 2 inserted at position 1 of the full <<1, 1>> and erased again
C11_Witness ==
    /\ last.op = "Erase" /\ last.undo /\ last.n = 1 /\ last.elems = <<1, 1>>
    /\ Alive(1) /\ vec[1].cap = 4 /\ vec[1].size = 2

\* C12: copy construction gives the new array a buffer of its own, of capacity
\* exactly the size of the source, with the elements of the source, and leaves
\* the source as it was; a mutation of one of two arrays with buffers of their
\* own leaves size, capacity, buffer and elements of the other as they were,
\* and the two still have buffers of their own.
C12_CopyIndependent ==
    [][/\ (last'.op = "VectorCopy" /\ last'.out = "ok") =>
             LET v == last'.v
                 w == last'.w
                 from == BufOf(heap, vec[w])
                 to == BufOf(heap', vec'[v])
             IN /\ vec'[v].cap = vec[w].size /\ vec'[v].size = vec[w].size
                /\ Len(to) = vec[w].size
                /\ \A i \in 1..vec[w].size : from[i] # Uninit => to[i] = from[i]
                /\ vec[w].size > 0 =>
                      vec'[v].buf \notin {nullptr, vec[w].buf} /\ heap[vec'[v].buf] = <<>>
                /\ vec'[w] = vec[w] /\ BufOf(heap', vec'[w]) = from
       /\ \A v \in Vecs, w \in Vecs :
             (/\ last'.op \in Mutations /\ last'.v = v /\ w # v /\ Alive(v) /\ Alive(w)
              /\ vec[v].buf # vec[w].buf \/ vec[v].buf = nullptr) =>
                /\ vec'[w] = vec[w] /\ BufOf(heap', vec'[w]) = BufOf(heap, vec[w])
                /\ vec'[v].buf # vec'[w].buf \/ vec'[v].buf = nullptr]_vars

\* 2 appended to the copy of <<1>>
C12_Witness ==
    /\ last.prior = "VectorCopy" /\ last.op = "PushBack" /\ last.out = "ok" /\ last.v = 2
    /\ Alive(1) /\ Alive(2) /\ Elems(1) = <<1>> /\ vec[1].cap = 1
    /\ Elems(2) = <<1, 2>> /\ vec[2].cap = 2

\* C13: after move construction or move assignment from another array b the
\* destination holds the buffer, size and elements b had, and b has size 0,
\* capacity 0 and no buffer; an append to b then succeeds, giving it size 1
\* and capacity 1 in a buffer of its own, and leaves the destination alone.
C13_MovedFrom ==
    [][(last'.op \in {"VectorMove", "MoveAssign"} /\ last'.v # last'.w) =>
          LET v == last'.v
              w == last'.w
          IN /\ vec'[v] = [life |-> "alive", buf |-> vec[w].buf, cap |-> vec[w].cap,
                           size |-> vec[w].size]
             /\ BufOf(heap', vec'[v]) = BufOf(heap, vec[w])
             /\ vec'[w] = Empty
             /\ \A x \in Vals :
                   LET r == PushBack(heap', vec'[w], x, <<>>, 0, "ignored")
                   IN /\ r.out = "ok" /\ r.d.size = 1 /\ r.d.cap = 1
                      /\ ElemsOf(r.h, r.d) = <<x>>
                      /\ r.d.buf \notin {nullptr, vec'[v].buf}
                      /\ BufOf(r.h, vec'[v]) = BufOf(heap', vec'[v])]_vars

\* <<1, 2>> move assigned to an empty array, then 2 appended to its source
C13_Witness ==
    /\ last.prior = "MoveAssign" /\ last.op = "PushBack" /\ last.out = "ok" /\ last.v = 2
    /\ Alive(1) /\ Elems(1) = <<1, 2>> /\ vec[1].cap = 2
    /\ Alive(2) /\ Elems(2) = <<2>> /\ vec[2].cap = 1

\* C14: a successful copy assignment a = b leaves a with the size and the
\* elements of b, in order, whichever of the two was longer, leaves b as it
\* was, and leaves the capacity and buffer of a as they were when that capacity
\* was at least the size of b; an assignment of an array to itself changes
\* nothing.
C14_CopyAssign ==
    [][(last'.op = "CopyAssign" /\ last'.out = "ok") =>
          LET v == last'.v
              w == last'.w
              from == BufOf(heap, vec[w])
              to == BufOf(heap', vec'[v])
          IN IF v = w THEN vec' = vec /\ heap' = heap
             ELSE /\ vec'[v].size = vec[w].size
                  /\ \A i \in 1..vec[w].size : from[i] # Uninit => to[i] = from[i]
                  /\ \A i \in (vec[w].size + 1)..Len(to) :
                        (\A j \in 1..vec[v].cap : (j <= vec[v].size) <=>
                                                     (BufOf(heap, vec[v])[j] # Uninit))
                            => to[i] = Uninit
                  /\ vec'[w] = vec[w] /\ BufOf(heap', vec'[w]) = from
                  /\ vec[v].cap >= vec[w].size =>
                        vec'[v].cap = vec[v].cap /\ vec'[v].buf = vec[v].buf]_vars

\* <<2>> assigned to <<1, 2>> within its capacity of 2
C14_Witness ==
    /\ last.op = "CopyAssign" /\ last.out = "ok" /\ last.v = 1 /\ last.w = 2
    /\ last.size = 2 /\ last.cap = 2 /\ Alive(1) /\ Alive(2)
    /\ Elems(1) = <<2>> /\ vec[1].cap = 2 /\ vec[1].buf = last.buf /\ Elems(2) = <<2>>

\* C15: when copying an element of b throws in a copy assignment a = b with
\* a.capacity() < b.size(), size, capacity, buffer and elements of a are as
\* before the call, and b is unchanged.
C15_CopyAssignThrow ==
    [][(last'.op = "CopyAssign" /\ last'.out = "throw_copy"
            /\ vec[last'.v].cap < vec[last'.w].size) =>
          vec' = vec /\ heap' = heap]_vars

\* the copy of <<1, 2>> threw in its assignment to <<1>> of capacity 1
C15_Witness ==
    /\ last.op = "CopyAssign" /\ last.out = "throw_copy" /\ last.v = 1 /\ last.w = 2
    /\ last.cap = 1 /\ last.size = 1 /\ Alive(1) /\ Alive(2)
    /\ Elems(1) = <<1>> /\ vec[1].cap = 1 /\ Elems(2) = <<1, 2>>

\* C16: Swap exchanges buffer, capacity and size of the two arrays, so that
\* each has the elements the other had; it constructs and destructs no
\* element; a second Swap gives both arrays back as they were.
C16_Swap ==
    [][last'.op = "Swap" =>
          LET v == last'.v
              w == last'.w
              again == Swap(heap', vec'[v], vec'[w])
          IN /\ last'.out = "ok"
             /\ vec'[v] = vec[w] /\ vec'[w] = vec[v]
             /\ ElemsOf(heap', vec'[v]) = Elems(w) /\ ElemsOf(heap', vec'[w]) = Elems(v)
             /\ heap' = heap /\ faults' = faults
             /\ again.h = heap /\ again.d = vec[v] /\ again.e = vec[w]
             /\ again.out = "ok" /\ again.f = {}]_vars

\* <<1, 2>> of capacity 2 swapped with <<2>> of capacity 1
C16_Witness ==
    /\ last.op = "Swap" /\ last.v = 1 /\ last.w = 2 /\ last.size = 2 /\ last.cap = 2
    /\ Alive(1) /\ Elems(1) = <<2>> /\ vec[1].cap = 1
    /\ Alive(2) /\ Elems(2) = <<1, 2>> /\ vec[2].cap = 2 /\ vec[2].buf = last.buf

\* C17: in every reachable state no two arrays refer to the same buffer, and
\* no array refers to a buffer that has been released.
C17_SingleOwner ==
    /\ \A v \in Vecs, w \in Vecs :
          (Alive(v) /\ Alive(w) /\ v # w /\ vec[v].buf # nullptr) => vec[v].buf # vec[w].buf
    /\ \A v \in Vecs :
          (Alive(v) /\ vec[v].buf # nullptr) => Len(heap[vec[v].buf]) = vec[v].cap

\* C18: when a step behind the construction of the temporary throws in an
\* in-place insertion at p < size() < capacity(), the unwind destructs the
\* element constructed at slot size() and nothing else, releases no part of the
\* buffer, and size() is still the number of live slots.
C18_UnwindDestroys ==
    [][(last'.op = "Emplace" /\ last'.out = "throw_step") =>
          LET v == last'.v
              new == BufOf(heap', vec'[v])
          IN /\ vec' = vec
             /\ Allocated(heap') = Allocated(heap)
             /\ "bad_delete" \notin faults'
             /\ \A i \in 1..Len(new) : (i <= vec'[v].size) <=> (new[i] # Uninit)]_vars

\* C19: when an append or insertion on a full array fails because a
\* relocation into the new buffer throws, every element constructed in the
\* new buffer, the new element at offset p and the relocated prefix included,
\* is destructed before the new buffer is released.
C19_NothingAbandoned ==
    [][(last'.op \in Insertions /\ last'.out = "throw_reloc") =>
          "abandoned" \notin faults']_vars

\* C20: in every array state, for every value x, PushBack(x) leaves the size,
\* capacity and element sequence that Emplace(end(), x) leaves, and PopBack()
\* those that Erase(end() - 1) leaves, in both revisions.
C20_AppendIsInsert ==
    \A v \in Vecs :
        (Sound /\ Alive(v)) =>
            LET d == vec[v] IN
            /\ (d.size = d.cap => CanAllocate(heap, GrownCapacity(d), d.cap)) =>
                  \A x \in Vals, src \in Fetch(Elems(v)), fail \in Failures(d, d.size) :
                     \A u \in Deletes(d, d.size, fail) :
                        LET a == PushBack(heap, d, x, src, fail, "ignored")
                            i == Emplace(heap, d, d.size, x, src, fail, u)
                        IN /\ a.out = i.out
                           /\ a.d.size = i.d.size /\ a.d.cap = i.d.cap
                           /\ ElemsOf(a.h, a.d) = ElemsOf(i.h, i.d)
            /\ d.size > 0 =>
                  LET a == PopBack(heap, d)
                      i == Erase(heap, d, d.size - 1, Elems(v))
                  IN /\ a.d.size = i.d.size /\ a.d.cap = i.d.cap
                     /\ ElemsOf(a.h, a.d) = ElemsOf(i.h, i.d)

\* C21: after every call, construction with any count, move construction,
\* move assignment and Swap included, the capacity of each RawMemory is 0
\* exactly when its buffer is nullptr; a construction with count 0 allocates
\* nothing.
C21_NullIffEmpty ==
    [][/\ \A v \in Vecs : (vec'[v].cap = 0) <=> (vec'[v].buf = nullptr)
       /\ ((last'.op = "VectorN" /\ last'.n = 0)
              \/ (last'.op = "VectorCopy" /\ vec[last'.w].size = 0)) =>
             heap' = heap /\ vec'[last'.v].buf = nullptr]_vars

\* a buffer of capacity 2 move assigned to a Vector without a buffer
C21_Witness ==
    /\ last.op = "MoveAssign" /\ last.v = 1 /\ last.w = 2
    /\ last.cap = 0 /\ last.buf = nullptr
    /\ vec[1].cap = 2 /\ vec[1].buf # nullptr
    /\ vec[2].cap = 0 /\ vec[2].buf = nullptr /\ Alive(2)

====
